---- MODULE Spec2Model ----
(***************************************************************************)
(* State-machine model of the FileUploader widget                          *)
(* (frontend/src/components/widgets/FileUploader/FileUploader.tsx) and of  *)
(* the Block renderer (frontend/src/components/core/Block/Block.tsx).      *)
(*                                                                         *)
(* One action per handler: dropHandler, deleteFile, the three transport    *)
(* callbacks of uploadFile (progress, success, failure) and a props        *)
(* update.  Every handler that calls setState is followed, inside the same *)
(* action, by the componentDidUpdate run(s) React performs for it.         *)
(***************************************************************************)
EXTENDS Integers, Sequences, FiniteSets, TLC

(* ----------------------------- bounds ---------------------------------- *)

\* Number of local ids the model lets nextLocalFileId allocate for a
\* single-file uploader, and for a multi-file uploader (whose collection is
\* never trimmed by a replacement).
MaxIds == 4

MaxMultiIds == 3

\* The same number where drops carry every rejection code (SpecIntake).
MaxIntakeIds == 3

\* Largest number of files delivered by one drop.
MaxDrop == 2

\* Largest number of elements of the root Block.
MaxElements == 3

\* Largest number of options of a Radio.
MaxOptions == 3

\* Largest number of messages a guest posts to its host.
MaxSent == 3

\* Largest number of example files the end-to-end script runs.
MaxFiles == 3

\* Ids the transport may answer with ("Server IDs are always positive").
ServerIds == {5, 9}

\* Progress events (loaded, total) the transport may deliver.
ProgressEvents == {<<2, 3>>}

\* Rejection codes of react-dropzone, plus one unrecognised code.
ErrorCodes ==
  {"file-too-large", "file-invalid-type", "file-too-small", "too-many-files",
   "other-code"}

\* The errors lists a FileRejection may carry.
ErrorLists ==
  {<<c>> : c \in ErrorCodes} \cup {<<"file-too-large", "too-many-files">>}

\* The errors lists used where the reason of a rejection does not matter.
FewErrorLists == {<<"too-many-files">>, <<"file-too-large">>}

\* Errors a failed upload may be rejected with ("" is a falsy err).
TransportErrors == {"Error: Network Error", ""}

VARIABLES
  files,               \* this.state.files
  disabled,            \* this.props.disabled
  multipleFiles,       \* this.props.element.multipleFiles
  localFileIdCounter,  \* FileUploader.localFileIdCounter
  registry,            \* the WidgetStateManager's value for element.id
  uploads,             \* unsettled uploadClient.uploadFile promises, by local id
  act,                 \* the handler that ran last and its inputs
  effects,             \* what the last handler did to its collaborators
  blockProps,          \* the props of the root Block
  rendered,            \* what the last render of the root Block yielded
  radio,               \* a Radio widget and the value its registry stores
  dateInput,           \* a DateInput widget and the value its registry stores
  guest,               \* the useS4ACommunication hook of a mounted component
  script               \* a run of scripts/e2e.sh

uploaderVars ==
  <<files, disabled, multipleFiles, localFileIdCounter, registry, uploads,
    act, effects>>

blockVars == <<blockProps, rendered>>

vars ==
  <<files, disabled, multipleFiles, localFileIdCounter, registry, uploads,
    act, effects, blockProps, rendered, radio, dateInput, guest, script>>

\* What the handlers of one component leave alone: every other component.
exceptUploader == <<blockVars, radio, dateInput, guest, script>>

exceptBlock == <<uploaderVars, radio, dateInput, guest, script>>

exceptRadio == <<uploaderVars, blockVars, dateInput, guest, script>>

exceptDateInput == <<uploaderVars, blockVars, radio, guest, script>>

exceptGuest == <<uploaderVars, blockVars, radio, dateInput, script>>

exceptScript == <<uploaderVars, blockVars, radio, dateInput, guest>>

\* The value of a variable whose component is not part of the page.
Absent == <<>>

(* --------------------------- UploadFileInfo ----------------------------- *)

NoToken == 0

UploadingStatus(cancelToken, progress) ==
  [type |-> "uploading", cancelToken |-> cancelToken, progress |-> progress,
   errorMessage |-> <<>>]

UploadedStatus ==
  [type |-> "uploaded", cancelToken |-> NoToken, progress |-> 0,
   errorMessage |-> <<>>]

ErrorStatus(errorMessage) ==
  [type |-> "error", cancelToken |-> NoToken, progress |-> 0,
   errorMessage |-> errorMessage]

UploadFileInfo(file, id, st) == [file |-> file, id |-> id, status |-> st]

\* A newId of Undefined stands for the omitted optional argument.
Undefined == 0

setStatus(info, st, newId) ==
  UploadFileInfo(info.file, IF newId = Undefined THEN info.id ELSE newId, st)

(* ------------------------ pure helpers of the class --------------------- *)

Ids(fs) == {fs[i].id : i \in DOMAIN fs}

find(fs, fileId) ==
  IF \E i \in DOMAIN fs : fs[i].id = fileId
    THEN LET i == CHOOSE j \in DOMAIN fs :
                    fs[j].id = fileId /\ \A k \in 1..(j - 1) : fs[k].id # fileId
         IN <<fs[i]>>
    ELSE <<>>

\* A faulty status getter: an Error record also makes it "updating".
statusCountsErrors(fs) ==
  IF \E i \in DOMAIN fs : fs[i].status.type \in {"uploading", "error"}
    THEN "updating"
    ELSE "ready"

status(fs) ==
  IF \E i \in DOMAIN fs : fs[i].status.type = "uploading"
    THEN "updating"
    ELSE "ready"

isUploaded(f) == f.status.type = "uploaded"

\* A faulty uploadedFileIds: the filter on the Uploaded status is missing.
uploadedFileIdsOfAll(fs) == [i \in DOMAIN fs |-> fs[i].id]

\* A faulty uploadedFileIds: newest first, the order render() displays.
uploadedFileIdsNewestFirst(fs) ==
  LET up == SelectSeq(fs, isUploaded)
  IN [i \in DOMAIN up |-> up[Len(up) + 1 - i].id]

uploadedFileIds(fs) ==
  LET up == SelectSeq(fs, isUploaded)
  IN [i \in DOMAIN up |-> up[i].id]

addFile(fs, file) == Append(fs, file)

addFiles(fs, new) == fs \o new

removeFile(fs, idToRemove) ==
  LET keep(f) == f.id # idToRemove
  IN SelectSeq(fs, keep)

\* A faulty updateFile: it replaces every record, whatever its id.
updateFileEvery(fs, idToUpdate, replacement) ==
  [i \in DOMAIN fs |-> replacement]

\* A faulty updateFile: it adds the replacement when no record has the id.
updateFileOrAdd(fs, idToUpdate, replacement) ==
  IF idToUpdate \in Ids(fs)
    THEN [i \in DOMAIN fs |->
            IF fs[i].id = idToUpdate THEN replacement ELSE fs[i]]
    ELSE Append(fs, replacement)

updateFile(fs, idToUpdate, replacement) ==
  [i \in DOMAIN fs |-> IF fs[i].id = idToUpdate THEN replacement ELSE fs[i]]

FileType(file) == <<"type-of", file>>

\* A faulty getErrorMessage: the "file-too-small" case is missing.
getErrorMessageNoTooSmall(errorCode, file) ==
  CASE errorCode = "file-too-large" -> <<"File must be MAX or smaller.">>
    [] errorCode = "file-invalid-type" ->
         <<FileType(file), " files are not allowed.">>
    [] errorCode = "too-many-files" -> <<"Only one file is allowed.">>
    [] OTHER -> <<"Unexpected error. Please try again.">>

getErrorMessage(errorCode, file) ==
  CASE errorCode = "file-too-large" -> <<"File must be MAX or smaller.">>
    [] errorCode = "file-invalid-type" ->
         <<FileType(file), " files are not allowed.">>
    [] errorCode = "file-too-small" -> <<"File size is too small.">>
    [] errorCode = "too-many-files" -> <<"Only one file is allowed.">>
    [] OTHER -> <<"Unexpected error. Please try again.">>

transportErrorMessage(err) ==
  IF err # "" THEN <<err>> ELSE <<"Unknown error">>

\* A faulty Math.round: it truncates.
roundDown(num, den) == num \div den

\* Math.round(num / den) for a non-negative quotient.
round(num, den) == (2 * num + den) \div (2 * den)

(* ------------------- WidgetStateManager (registry) ---------------------- *)

NoValue == [kind |-> "none", data |-> <<>>]

\* The stored int array as a list of at most one element (<<>>: undefined).
getIntArrayValue(reg) == IF reg.kind = "int" THEN <<reg.data>> ELSE <<>>

setIntArrayValue(reg, value) == [kind |-> "int", data |-> value]

setStringArrayValue(reg, value) == [kind |-> "string", data |-> value]

(* ------------------------- componentDidUpdate --------------------------- *)

\* A component snapshot threaded through one handler: the committed
\* state.files, the registry value and the registry writes made so far.
Component(fs, reg, writes) == [files |-> fs, registry |-> reg, writes |-> writes]

\* A call of setIntArrayValue / setStringArrayValue, with what the component
\* could see when it made the call: the stored value it would read
\* (getIntArrayValue(widgetId) ?? []), its uploaded ids and its status.
Write(value, fromUi, c) ==
  [value |-> value, fromUi |-> fromUi,
   prev |-> IF getIntArrayValue(c.registry) = <<>>
              THEN <<>>
              ELSE getIntArrayValue(c.registry)[1],
   uploaded |-> uploadedFileIds(c.files),
   status |-> status(c.files)]

\* A faulty syncWidgetValue: an Error record keeps it from publishing.
syncWidgetValueBlockedByError(c) ==
  IF status(c.files) # "ready"
       \/ \E i \in DOMAIN c.files : c.files[i].status.type = "error"
    THEN c
    ELSE LET stored == getIntArrayValue(c.registry)
             prevWidgetValue == IF stored = <<>> THEN <<>> ELSE stored[1]
             newWidgetValue == uploadedFileIds(c.files)
         IN IF newWidgetValue # prevWidgetValue
              THEN Component(c.files,
                             setIntArrayValue(c.registry, newWidgetValue),
                             Append(c.writes, Write(newWidgetValue, TRUE, c)))
              ELSE c

\* A faulty syncWidgetValue: when ready it writes without comparing.
syncWidgetValueAlways(c) ==
  IF status(c.files) # "ready"
    THEN c
    ELSE Component(c.files,
                   setIntArrayValue(c.registry, uploadedFileIds(c.files)),
                   Append(c.writes, Write(uploadedFileIds(c.files), TRUE, c)))

\* A faulty syncWidgetValue: it does not wait for the "ready" status.
syncWidgetValueWhileUpdating(c) ==
  LET stored == getIntArrayValue(c.registry)
      prevWidgetValue == IF stored = <<>> THEN <<>> ELSE stored[1]
      newWidgetValue == uploadedFileIds(c.files)
  IN IF newWidgetValue # prevWidgetValue
       THEN Component(c.files,
                      setIntArrayValue(c.registry, newWidgetValue),
                      Append(c.writes, Write(newWidgetValue, TRUE, c)))
       ELSE c

\* Lines 103-117: publish the uploaded ids when ready and changed.
syncWidgetValue(c) ==
  IF status(c.files) # "ready"
    THEN c
    ELSE LET stored == getIntArrayValue(c.registry)
             prevWidgetValue == IF stored = <<>> THEN <<>> ELSE stored[1]
             newWidgetValue == uploadedFileIds(c.files)
         IN IF newWidgetValue # prevWidgetValue
              THEN Component(c.files,
                             setIntArrayValue(c.registry, newWidgetValue),
                             Append(c.writes, Write(newWidgetValue, TRUE, c)))
              ELSE c

\* reset(): the setState it queues is flushed when componentDidUpdate returns.
reset(c) == [c EXCEPT !.files = <<>>]

\* A faulty componentDidUpdate: it resets on any change of the disabled prop.
componentDidUpdateOnAnyChange(prevDisabled, curDisabled, c) ==
  IF prevDisabled # curDisabled
    THEN syncWidgetValue(
           reset(Component(c.files,
                           setStringArrayValue(c.registry, <<>>),
                           Append(c.writes, Write(<<>>, FALSE, c)))))
    ELSE syncWidgetValue(c)

\* Lines 86-117, together with the update that reset()'s setState causes
\* (a second componentDidUpdate, with prevProps equal to the props).
componentDidUpdate(prevDisabled, curDisabled, c) ==
  IF prevDisabled # curDisabled /\ curDisabled
    THEN syncWidgetValue(
           reset(Component(c.files,
                           setStringArrayValue(c.registry, <<>>),
                           Append(c.writes, Write(<<>>, FALSE, c)))))
    ELSE syncWidgetValue(c)

\* One setState of a handler, named after the method that queues it.
Step(kind, id, recs) == [kind |-> kind, id |-> id, recs |-> recs]

applyStep(fs, st) ==
  CASE st.kind = "removeFile" -> removeFile(fs, st.id)
    [] st.kind = "addFile" -> addFile(fs, st.recs[1])
    [] st.kind = "addFiles" -> addFiles(fs, st.recs)
    [] st.kind = "updateFile" -> updateFile(fs, st.id, st.recs[1])

\* The setStates of one handler.  Batched (inside a React event handler) they
\* are committed together and componentDidUpdate runs once; otherwise (inside
\* a promise callback) each one commits and runs componentDidUpdate at once.
RECURSIVE commit(_, _, _)
commit(c, steps, batched) ==
  IF steps = <<>>
    THEN c
    ELSE LET c1 == [c EXCEPT !.files = applyStep(c.files, Head(steps))]
             c2 == IF batched /\ Len(steps) > 1 THEN c1 ELSE syncWidgetValue(c1)
         IN commit(c2, Tail(steps), batched)

(* ------------------------------ dropHandler ----------------------------- *)

FileRejection(file, errors) == [file |-> file, errors |-> errors]

\* A faulty firstFileIndex: the last matching rejection instead of the first.
lastFileIndex(rejectedFiles) ==
  LET hit(i) == /\ Len(rejectedFiles[i].errors) = 1
                /\ rejectedFiles[i].errors[1] = "too-many-files"
  IN IF \E i \in DOMAIN rejectedFiles : hit(i)
       THEN CHOOSE i \in DOMAIN rejectedFiles :
              hit(i) /\ \A k \in (i + 1)..Len(rejectedFiles) : ~hit(k)
       ELSE 0

\* rejectedFiles.findIndex(...) of lines 156-159, 1-based; 0 when not found.
firstFileIndex(rejectedFiles) ==
  LET hit(i) == /\ Len(rejectedFiles[i].errors) = 1
                /\ rejectedFiles[i].errors[1] = "too-many-files"
  IN IF \E i \in DOMAIN rejectedFiles : hit(i)
       THEN CHOOSE i \in DOMAIN rejectedFiles :
              hit(i) /\ \A k \in 1..(i - 1) : ~hit(k)
       ELSE 0

splice(s, i) == SubSeq(s, 1, i - 1) \o SubSeq(s, i + 1, Len(s))

\* Lines 148-165: the accepted and rejected lists after the salvage.
salvage(multiple, acceptedFiles, rejectedFiles) ==
  IF ~multiple /\ Len(acceptedFiles) = 0 /\ Len(rejectedFiles) > 1
       /\ firstFileIndex(rejectedFiles) > 0
    THEN [accepted |-> Append(acceptedFiles,
                              rejectedFiles[firstFileIndex(rejectedFiles)].file),
          rejected |-> splice(rejectedFiles, firstFileIndex(rejectedFiles))]
    ELSE [accepted |-> acceptedFiles, rejected |-> rejectedFiles]

\* Lines 167-175: the removeFile of the single-file replacement, if any.
replaceSteps(multiple, fs, acceptedFiles) ==
  IF ~multiple /\ Len(acceptedFiles) > 0 /\ Len(fs) > 0
    THEN <<Step("removeFile", fs[1].id, <<>>)>>
    ELSE <<>>

\* A faulty uploadFile: the record starts at progress 0.
uploadingFileAtZero(file, id) == UploadFileInfo(file, id, UploadingStatus(id, 0))

\* Lines 200-212: the record uploadFile creates for the k-th accepted file.
uploadingFile(file, id) == UploadFileInfo(file, id, UploadingStatus(id, 1))

\* Lines 183-195: the record of the j-th rejected file.
rejectedInfo(rejected, id) ==
  UploadFileInfo(rejected.file, id,
                 ErrorStatus(getErrorMessage(rejected.errors[1], rejected.file)))

\* A faulty nextLocalFileId: it returns the counter without decrementing it.
nthLocalFileIdSame(counter, n) == counter

\* nextLocalFileId() called for the n-th time from a counter value.
nthLocalFileId(counter, n) == counter - (n - 1)

acceptedInfos(counter, acceptedFiles) ==
  [k \in DOMAIN acceptedFiles |->
     uploadingFile(acceptedFiles[k], nthLocalFileId(counter, k))]

rejectedInfos(counter, rejectedFiles) ==
  [j \in DOMAIN rejectedFiles |->
     rejectedInfo(rejectedFiles[j], nthLocalFileId(counter, j))]

\* Lines 177-197: one addFile per accepted file, one addFiles for the rest.
addSteps(counter, acceptedFiles, rejectedFiles) ==
  [k \in DOMAIN acceptedFiles |->
     Step("addFile", 0, <<acceptedInfos(counter, acceptedFiles)[k]>>)]
  \o (IF Len(rejectedFiles) > 0
        THEN <<Step("addFiles", 0,
                    rejectedInfos(counter - Len(acceptedFiles), rejectedFiles))>>
        ELSE <<>>)

dropSteps(multiple, fs, counter, acceptedFiles, rejectedFiles) ==
  LET s == salvage(multiple, acceptedFiles, rejectedFiles)
  IN replaceSteps(multiple, fs, s.accepted)
     \o addSteps(counter, s.accepted, s.rejected)

\* The drops react-dropzone can deliver: n files, the first a of them
\* accepted, each of the others rejected with a list of errors.  The files of
\* one drop are named by their position in it.  Without `multiple` the
\* dropzone never accepts more than one file.
DropsOf(errorLists) ==
  {d \in [accepted : {[k \in 1..a |-> k] : a \in 0..MaxDrop},
          rejected : UNION {[1..r -> errorLists] : r \in 0..MaxDrop}] :
     Len(d.accepted) + Len(d.rejected) \in 1..MaxDrop}

FewDrops == DropsOf(FewErrorLists)

AllDrops == DropsOf(ErrorLists)

Drops(multiple, all) ==
  {d \in all : ~multiple => Len(d.accepted) <= 1}

rejectedFilesOf(d) ==
  [j \in DOMAIN d.rejected |->
     FileRejection(Len(d.accepted) + j, d.rejected[j])]

\* act: the handler's name and arguments; for a transport callback also
\* whether the upload's cancel token had been cancelled when it arrived.
NoAct == [name |-> "none", id |-> 0, newId |-> 0, accepted |-> <<>>,
          rejected |-> <<>>, err |-> "", cancelled |-> FALSE,
          event |-> <<>>]

NoEffects == [writes |-> <<>>, cancelled |-> {}, started |-> <<>>]

\* The variables every handler leaves in the same way after its updates.
Commit(c, cancelled, started) ==
  /\ files' = c.files
  /\ registry' = c.registry
  /\ effects' = [writes |-> c.writes, cancelled |-> cancelled,
                 started |-> started]
  /\ UNCHANGED exceptUploader

Now == Component(files, registry, <<>>)

DropHandler(d, batched, maxIds) ==
  LET rej == rejectedFilesOf(d)
      s == salvage(multipleFiles, d.accepted, rej)
      n == Len(s.accepted) + Len(s.rejected)
      new == acceptedInfos(localFileIdCounter, s.accepted)
  IN /\ ~disabled
     /\ -localFileIdCounter - 1 + n <= maxIds
     /\ Commit(commit(Now,
                      dropSteps(multipleFiles, files, localFileIdCounter,
                                d.accepted, rej),
                      batched),
               {}, [k \in DOMAIN new |-> new[k].id])
     /\ uploads' = [i \in DOMAIN uploads \cup {new[k].id : k \in DOMAIN new} |->
                      IF i \in DOMAIN uploads
                        THEN uploads[i]
                        ELSE [info |-> CHOOSE f \in {new[k] : k \in DOMAIN new} :
                                         f.id = i,
                              cancelled |-> FALSE]]
     /\ localFileIdCounter' = localFileIdCounter - n
     /\ act' = [NoAct EXCEPT !.name = "dropHandler", !.accepted = d.accepted,
                             !.rejected = rej]
     /\ UNCHANGED <<disabled, multipleFiles>>

(* ------------------------------ deleteFile ------------------------------ *)

\* A faulty deleteFile: it cancels the token of the record whatever its status.
cancelledByAnyStatus(file) == {file.status.cancelToken}

\* Lines 279-284: the cancel tokens deleteFile cancels for a found record.
cancelledBy(file) ==
  IF file.status.type = "uploading" THEN {file.status.cancelToken} ELSE {}

cancel(ups, tokens) ==
  [i \in DOMAIN ups |->
     IF i \in tokens THEN [ups[i] EXCEPT !.cancelled = TRUE] ELSE ups[i]]

deleteSteps(fs, fileId) ==
  IF find(fs, fileId) = <<>>
    THEN <<>>
    ELSE <<Step("removeFile", fileId, <<>>)>>

DeleteFile(fileId) ==
  LET file == find(files, fileId)
      tokens == IF file = <<>> THEN {} ELSE cancelledBy(file[1])
  IN /\ Commit(commit(Now, deleteSteps(files, fileId), FALSE), tokens, <<>>)
     /\ uploads' = cancel(uploads, tokens)
     /\ act' = [NoAct EXCEPT !.name = "deleteFile", !.id = fileId]
     /\ UNCHANGED <<disabled, multipleFiles, localFileIdCounter>>

(* ----------------------- callbacks of uploadFile ------------------------ *)

settle(ups, id) == [i \in DOMAIN ups \ {id} |-> ups[i]]

\* Lines 322-342.
progressSteps(fs, event, fileId) ==
  LET file == find(fs, fileId)
      newProgress == round(event[1] * 100, event[2])
  IN IF file = <<>> \/ file[1].status.type # "uploading"
       THEN <<>>
       ELSE IF file[1].status.progress = newProgress
              THEN <<>>
              ELSE <<Step("updateFile", fileId,
                          <<setStatus(file[1],
                                      UploadingStatus(file[1].status.cancelToken,
                                                      newProgress),
                                      Undefined)>>)>>

OnUploadProgress(id, event) ==
  /\ id \in DOMAIN uploads
  /\ Commit(commit(Now, progressSteps(files, event, id), FALSE), {}, <<>>)
  /\ act' = [NoAct EXCEPT !.name = "onUploadProgress", !.id = id,
                          !.cancelled = uploads[id].cancelled,
                          !.event = event]
  /\ UNCHANGED <<disabled, multipleFiles, localFileIdCounter, uploads>>

\* A faulty success handler: the record keeps its local id.
successStepsKeepLocalId(info, newFileId) ==
  <<Step("updateFile", info.id, <<setStatus(info, UploadedStatus, Undefined)>>)>>

\* Lines 221-228: the promise resolves with the permanent file id.
successSteps(info, newFileId) ==
  <<Step("updateFile", info.id, <<setStatus(info, UploadedStatus, newFileId)>>)>>

UploadSuccess(id, newFileId) ==
  /\ id \in DOMAIN uploads
  /\ Commit(commit(Now, successSteps(uploads[id].info, newFileId), FALSE),
            {}, <<>>)
  /\ uploads' = settle(uploads, id)
  /\ act' = [NoAct EXCEPT !.name = "uploadSuccess", !.id = id,
                          !.newId = newFileId,
                          !.cancelled = uploads[id].cancelled]
  /\ UNCHANGED <<disabled, multipleFiles, localFileIdCounter>>

CancelError == "Cancel"

isCancel(err) == err = CancelError

\* Lines 229-241: the promise rejects.
failureSteps(info, err) ==
  IF ~isCancel(err)
    THEN <<Step("updateFile", info.id,
                <<setStatus(info, ErrorStatus(transportErrorMessage(err)),
                            Undefined)>>)>>
    ELSE <<>>

UploadFailure(id, err) ==
  /\ id \in DOMAIN uploads
  /\ isCancel(err) => uploads[id].cancelled
  /\ Commit(commit(Now, failureSteps(uploads[id].info, err), FALSE), {}, <<>>)
  /\ uploads' = settle(uploads, id)
  /\ act' = [NoAct EXCEPT !.name = "uploadFailure", !.id = id, !.err = err,
                          !.cancelled = uploads[id].cancelled]
  /\ UNCHANGED <<disabled, multipleFiles, localFileIdCounter>>

(* ----------------------- a second FileUploader -------------------------- *)

\* A faulty static counter: every instance counts for itself.
afterCallsOfOwnCounter(counter, n) == counter

\* Line 54 and lines 380-382: localFileIdCounter is a static field, so n
\* calls of nextLocalFileId by any instance leave it n lower.
afterCalls(counter, n) == counter - n

\* Another FileUploader of the page handles a drop of n files; of its state
\* only the static counter is part of this model.
OtherDropHandler(n, maxIds) ==
  /\ -localFileIdCounter - 1 + n <= maxIds
  /\ localFileIdCounter' = afterCalls(localFileIdCounter, n)
  /\ act' = [NoAct EXCEPT !.name = "otherDropHandler",
                          !.id = localFileIdCounter, !.newId = n]
  /\ effects' = NoEffects
  /\ UNCHANGED <<files, disabled, multipleFiles, registry, uploads>>
  /\ UNCHANGED exceptUploader

(* ----------------------------- props update ----------------------------- *)

\* The parent renders the widget with a (possibly unchanged) disabled prop.
SetDisabled(d) ==
  /\ disabled' = d
  /\ Commit(componentDidUpdate(disabled, d, Now), {}, <<>>)
  /\ act' = [NoAct EXCEPT !.name = "setDisabled"]
  /\ UNCHANGED <<multipleFiles, localFileIdCounter, uploads>>

(* ------------------------ Block (core/Block/Block.tsx) ------------------ *)

\* Lines 138-146: the run states isStaleElement tells apart; every other
\* state of the report is treated like "NOT_RUNNING".
ReportRunStates == {"NOT_RUNNING", "RUNNING", "RERUN_REQUESTED"}

ReportIds == {"A", "B"}

\* Lines 57-59: an element of a Block is an ImmutableMap (a simple element,
\* with its type, the report run it comes from and, for a widget, its id), a
\* List (a nested Block), or, after a transmission error, undefined.
ImmutableMap(type, reportId, id) ==
  [kind |-> "map", type |-> type, reportId |-> reportId, id |-> id,
   elements |-> <<>>]

List(elements) ==
  [kind |-> "list", type |-> "", reportId |-> "", id |-> "",
   elements |-> elements]

UndefinedElement ==
  [kind |-> "undefined", type |-> "", reportId |-> "", id |-> "",
   elements |-> <<>>]

Props(elements, reportId, reportRunState, showStaleElementIndicator, widgetsDisabled) ==
  [elements |-> elements, reportId |-> reportId,
   reportRunState |-> reportRunState,
   showStaleElementIndicator |-> showStaleElementIndicator,
   widgetsDisabled |-> widgetsDisabled]

\* Lines 160-178 and 180-188: the types renderElement has a renderer for.
ElementTypes ==
  {"audio", "balloons", "bokehChart", "chart", "dataFrame", "deckGlChart",
   "docString", "empty", "exception", "graphvizChart", "imgs", "plotlyChart",
   "progress", "table", "text", "vegaLiteChart", "video"}

WidgetTypes ==
  {"button", "checkbox", "dateInput", "textInput", "radio", "selectbox",
   "slider", "textArea", "timeInput"}

\* The outcome of renderElement: it threw, or it returned a component
\* (<<component>>) or undefined (<<>>).
Thrown == [thrown |-> TRUE, component |-> <<>>]

Returned(component) == [thrown |-> FALSE, component |-> component]

\* The component a renderer returns; disabled is <<widgetsDisabled>> for a
\* widget, which gets widgetProps, and <<>> for any other element.
ReactNode(type, element, widgetProps) ==
  [type |-> type, element |-> element, disabled |-> widgetProps]

\* dispatchOneOf(element, 'type', {...}) of lines 159-189: the renderer of
\* the element's type is called; an element of a type without a renderer is
\* a contract violation and throws.
dispatchOneOf(element, widgetsDisabled) ==
  IF element.type = "empty"
    THEN Returned(<<>>)
    ELSE IF element.type \in ElementTypes
           THEN Returned(<<ReactNode(element.type, element, <<>>)>>)
           ELSE IF element.type \in WidgetTypes
                  THEN Returned(<<ReactNode(element.type, element,
                                            <<widgetsDisabled>>)>>)
                  ELSE Thrown

\* A faulty renderElement: widgetProps lacks the Block's widgetsDisabled.
renderElementEnabled(element, p) ==
  IF element.kind = "undefined"
    THEN Thrown
    ELSE dispatchOneOf(element, FALSE)

\* Lines 149-190.
renderElement(element, p) ==
  IF element.kind = "undefined"
    THEN Thrown
    ELSE dispatchOneOf(element, p.widgetsDisabled)

\* A faulty isStaleElement: while running, the elements of the current run
\* are the stale ones.
isStaleElementOfSameRun(element, p) ==
  IF p.reportRunState = "RERUN_REQUESTED"
    THEN TRUE
    ELSE IF p.reportRunState = "RUNNING"
           THEN element.reportId = p.reportId
           ELSE FALSE

\* Lines 137-147.
isStaleElement(element, p) ==
  IF p.reportRunState = "RERUN_REQUESTED"
    THEN TRUE
    ELSE IF p.reportRunState = "RUNNING"
           THEN element.reportId # p.reportId
           ELSE FALSE

\* Immutable's List.get(index, notSetValue), index counted from 0.
get(list, index, notSetValue) ==
  IF index \in 0..(Len(list) - 1) THEN list[index + 1] ELSE notSetValue

\* A faulty handleEmptyElements: while the report runs, the elements of
\* other runs are left out.
handleEmptyElementsSkipsStale(p) ==
  IF p.reportRunState = "RUNNING"
    THEN LET isCurrent(e) == e.kind # "map" \/ e.reportId = p.reportId
         IN SelectSeq(p.elements, isCurrent)
    ELSE p.elements

\* Lines 120-135: elementsToRender is this.props.elements when the map runs.
handleEmptyElements(p) ==
  IF p.reportRunState = "RUNNING"
    THEN [i \in DOMAIN p.elements |->
            LET element == p.elements[i]
            IN IF element.kind = "map"
                 THEN IF element.type = "empty"
                        THEN get(p.elements, i - 1, element)
                        ELSE element
                 ELSE element]
    ELSE p.elements

\* A node pushed by renderElements: the <div> of a nested Block (className
\* "stBlock", children: the nodes of that Block) or the <div> of an element
\* (component: what renderElement returned, inside an ErrorBoundary).
Node(key, className, component, children) ==
  [key |-> key, className |-> className, component |-> component,
   children |-> children]

\* What rendering a Block yields: its nodes, or nothing when it threw.
Rendered(thrown, nodes) == [thrown |-> thrown, nodes |-> nodes]

RECURSIVE flatten(_)
flatten(ss) == IF ss = <<>> THEN <<>> ELSE Head(ss) \o flatten(Tail(ss))

\* Lines 72-118, with the render of every nested Block that React performs
\* for the <Block> elements pushed.  A throw of renderElement leaves
\* renderElements, and a throw in a nested Block leaves that Block's render
\* with no error boundary between it and the root Block: either way the
\* render of the root Block yields no nodes.
RECURSIVE renderElements(_)
renderElements(p) ==
  LET elementsToRender == handleEmptyElements(p)
      child(index) ==
        LET element == elementsToRender[index + 1]
        IN IF element.kind = "list"
             THEN LET block == renderElements([p EXCEPT !.elements =
                                                 element.elements])
                  IN Rendered(block.thrown,
                              <<Node(index, "stBlock", <<>>, block.nodes)>>)
             ELSE LET r == renderElement(element, p)
                      showStaleState == /\ p.showStaleElementIndicator
                                        /\ isStaleElement(element, p)
                      className ==
                        IF showStaleState
                          THEN "element-container stale-element"
                          ELSE "element-container"
                  IN IF r.thrown \/ r.component = <<>>
                       THEN Rendered(r.thrown, <<>>)
                       ELSE Rendered(FALSE,
                                     <<Node(index, className, r.component,
                                            <<>>)>>)
  IN IF \E i \in DOMAIN elementsToRender : child(i - 1).thrown
       THEN Rendered(TRUE, <<>>)
       ELSE Rendered(FALSE,
                     flatten([i \in DOMAIN elementsToRender |->
                                child(i - 1).nodes]))

\* The elements the parent may put into the root Block.
Elements ==
  {ImmutableMap("text", "A", ""), ImmutableMap("text", "B", ""),
   ImmutableMap("button", "A", "w1"), ImmutableMap("button", "B", "w2"),
   ImmutableMap("empty", "A", ""), ImmutableMap("mystery", "A", ""),
   UndefinedElement,
   List(<<ImmutableMap("button", "A", "w3")>>),
   List(<<ImmutableMap("text", "B", ""), UndefinedElement>>)}

NoProps == Props(<<>>, "A", "NOT_RUNNING", FALSE, FALSE)

\* The parent renders the root Block with new props.
Render(p) ==
  /\ blockProps' = p
  /\ rendered' = renderElements(p)
  /\ UNCHANGED exceptBlock

insertAt(s, i, e) == SubSeq(s, 1, i - 1) \o <<e>> \o SubSeq(s, i, Len(s))

\* A new snapshot of the tree: an element was inserted at position i.
InsertElement(i, element) ==
  /\ Len(blockProps.elements) < MaxElements
  /\ i \in 1..(Len(blockProps.elements) + 1)
  /\ Render([blockProps EXCEPT !.elements = insertAt(@, i, element)])

\* A new snapshot of the tree: the element at position i was removed.
RemoveElement(i) ==
  /\ i \in DOMAIN blockProps.elements
  /\ Render([blockProps EXCEPT !.elements = splice(@, i)])

\* A new snapshot of the tree: the element at position i was replaced.
SetElement(i, element) ==
  /\ i \in DOMAIN blockProps.elements
  /\ element # blockProps.elements[i]
  /\ Render([blockProps EXCEPT !.elements[i] = element])

\* The report's run state or the id of its current run changed.
SetReportRunState(reportRunState, reportId) ==
  /\ <<reportRunState, reportId>>
       # <<blockProps.reportRunState, blockProps.reportId>>
  /\ Render([blockProps EXCEPT !.reportRunState = reportRunState,
                               !.reportId = reportId])

SetShowStaleElementIndicator(b) ==
  /\ b # blockProps.showStaleElementIndicator
  /\ Render([blockProps EXCEPT !.showStaleElementIndicator = b])

SetWidgetsDisabled(b) ==
  /\ b # blockProps.widgetsDisabled
  /\ Render([blockProps EXCEPT !.widgetsDisabled = b])

(* ----------------------------- specification ---------------------------- *)

LocalIds == (-MaxIds)..(-1)

Init ==
  /\ files = <<>>
  /\ disabled = FALSE
  /\ multipleFiles \in BOOLEAN
  /\ localFileIdCounter = -1
  /\ registry = NoValue
  /\ uploads = <<>>
  /\ act = NoAct
  /\ effects = NoEffects
  /\ blockProps = NoProps
  /\ rendered = renderElements(NoProps)
  /\ radio = Absent
  /\ dateInput = Absent
  /\ guest = Absent
  /\ script = Absent

Next ==
  \/ \E d \in Drops(multipleFiles, FewDrops), batched \in BOOLEAN :
       DropHandler(d, batched, IF multipleFiles THEN MaxMultiIds ELSE MaxIds)
  \/ \E fileId \in Ids(files) \cup {localFileIdCounter} : DeleteFile(fileId)
  \/ \E id \in LocalIds, event \in ProgressEvents : OnUploadProgress(id, event)
  \/ \E id \in LocalIds, newFileId \in ServerIds : UploadSuccess(id, newFileId)
  \/ \E id \in LocalIds, err \in TransportErrors \cup {CancelError} :
       UploadFailure(id, err)
  \/ \E d \in BOOLEAN : SetDisabled(d)

Spec == Init /\ [][Next]_vars

\* The same widget, handed drops whose rejections carry every errors list.
NextIntake ==
  \/ \E d \in Drops(multipleFiles, AllDrops), batched \in BOOLEAN :
       DropHandler(d, batched, MaxIntakeIds)
  \/ \E fileId \in Ids(files) \cup {localFileIdCounter} : DeleteFile(fileId)
  \/ \E id \in LocalIds, event \in ProgressEvents : OnUploadProgress(id, event)
  \/ \E id \in LocalIds, newFileId \in ServerIds : UploadSuccess(id, newFileId)
  \/ \E id \in LocalIds, err \in TransportErrors \cup {CancelError} :
       UploadFailure(id, err)
  \/ \E d \in BOOLEAN : SetDisabled(d)

SpecIntake == Init /\ [][NextIntake]_vars

\* The root Block, rendered by its parent with one snapshot after another;
\* there is no FileUploader in the tree.
InitBlock ==
  /\ files = <<>>
  /\ disabled = FALSE
  /\ multipleFiles = FALSE
  /\ localFileIdCounter = -1
  /\ registry = NoValue
  /\ uploads = <<>>
  /\ act = NoAct
  /\ effects = NoEffects
  /\ blockProps = NoProps
  /\ rendered = renderElements(NoProps)
  /\ radio = Absent
  /\ dateInput = Absent
  /\ guest = Absent
  /\ script = Absent

NextBlock ==
  \/ \E i \in 1..MaxElements, element \in Elements : InsertElement(i, element)
  \/ \E i \in 1..MaxElements : RemoveElement(i)
  \/ \E i \in 1..MaxElements, element \in Elements : SetElement(i, element)
  \/ \E reportRunState \in ReportRunStates, reportId \in ReportIds :
       SetReportRunState(reportRunState, reportId)
  \/ \E b \in BOOLEAN : SetShowStaleElementIndicator(b)
  \/ \E b \in BOOLEAN : SetWidgetsDisabled(b)

SpecBlock == InitBlock /\ [][NextBlock]_vars

\* The widget next to a second FileUploader of the same page.
NextInstances ==
  \/ \E d \in Drops(multipleFiles, FewDrops), batched \in BOOLEAN :
       DropHandler(d, batched, MaxIntakeIds)
  \/ \E n \in 1..MaxDrop : OtherDropHandler(n, MaxIntakeIds)
  \/ \E fileId \in Ids(files) \cup {localFileIdCounter} : DeleteFile(fileId)
  \/ \E id \in LocalIds, event \in ProgressEvents : OnUploadProgress(id, event)
  \/ \E id \in LocalIds, newFileId \in ServerIds : UploadSuccess(id, newFileId)
  \/ \E id \in LocalIds, err \in TransportErrors \cup {CancelError} :
       UploadFailure(id, err)
  \/ \E d \in BOOLEAN : SetDisabled(d)

SpecInstances == Init /\ [][NextInstances]_vars

\* The FileUploader and the root Block of a page that shows neither.
NoUploader ==
  /\ files = <<>>
  /\ disabled = FALSE
  /\ multipleFiles = FALSE
  /\ localFileIdCounter = -1
  /\ registry = NoValue
  /\ uploads = <<>>
  /\ act = NoAct
  /\ effects = NoEffects

NoBlock ==
  /\ blockProps = NoProps
  /\ rendered = renderElements(NoProps)

(* --------------------- Radio (widgets/Radio/Radio.tsx) ------------------ *)

\* The option indexes a Radio may hold as default, stored or chosen value.
RadioValues == 0..(MaxOptions - 1)

\* Number.prototype.toString, for a non-negative integer: its decimal digits.
RECURSIVE toString(_)
toString(n) == IF n < 10 THEN <<n>> ELSE toString(n \div 10) \o <<n % 10>>

\* parseInt(s, 10) for a string of decimal digits.
RECURSIVE parseInt(_)
parseInt(s) ==
  IF Len(s) = 1
    THEN s[1]
    ELSE 10 * parseInt(SubSeq(s, 1, Len(s) - 1)) + s[Len(s)]

\* A faulty initialValue: a stored 0, being falsy, yields the default.
initialValueIfTruthy(storedValue, default) ==
  IF storedValue # <<>> /\ storedValue[1] # 0 THEN storedValue[1] ELSE default

\* Lines 44-50; storedValue is <<>> when getIntValue yields undefined.
initialValue(storedValue, default) ==
  IF storedValue # <<>> THEN storedValue[1] ELSE default

\* A Radio, its props (the element's default and number of options, and
\* disabled), its state.value, the int value the WidgetStateManager stores
\* for its id, and the setIntValue calls of the last handler.
Radio(default, options, isDisabled, value, mounted, stored, writes) ==
  [default |-> default, options |-> options, disabled |-> isDisabled,
   value |-> value, mounted |-> mounted, stored |-> stored, writes |-> writes]

\* WidgetStateManager.setIntValue: stores the value under the widget id,
\* where getIntValue finds it, and records whether the user made it.
setIntValue(r, value, fromUi) ==
  [r EXCEPT !.stored = <<value>>,
            !.writes = <<[value |-> value, fromUi |-> fromUi]>>]

\* Lines 56-59: setIntValue(widgetId, this.state.value, source).
setWidgetValue(r, fromUi) == setIntValue(r, r.value, fromUi)

\* Lines 52-54.
ComponentDidMount ==
  /\ ~radio.mounted
  /\ radio' = setWidgetValue([radio EXCEPT !.mounted = TRUE], FALSE)
  /\ UNCHANGED exceptRadio

\* Lines 61-64: the user picks the option with the given index; the
\* RadioGroup delivers it as a string (lines 79-87).
OnChange(index) ==
  /\ radio.mounted
  /\ ~radio.disabled
  /\ index \in 0..(radio.options - 1)
  /\ radio' = setWidgetValue([radio EXCEPT !.value = parseInt(toString(index))],
                             TRUE)
  /\ UNCHANGED exceptRadio

\* The parent renders the Radio with another disabled prop.
SetRadioDisabled(b) ==
  /\ radio.mounted
  /\ b # radio.disabled
  /\ radio' = [radio EXCEPT !.disabled = b, !.writes = <<>>]
  /\ UNCHANGED exceptRadio

\* A Radio just constructed, with or without a stored value.
InitRadio ==
  /\ NoUploader
  /\ NoBlock
  /\ \E default \in RadioValues, options \in 0..MaxOptions, b \in BOOLEAN,
        stored \in {<<>>} \cup {<<v>> : v \in RadioValues} :
       radio = Radio(default, options, b, initialValue(stored, default),
                     FALSE, stored, <<>>)
  /\ dateInput = Absent
  /\ guest = Absent
  /\ script = Absent

NextRadio ==
  \/ ComponentDidMount
  \/ \E index \in RadioValues : OnChange(index)
  \/ \E b \in BOOLEAN : SetRadioDisabled(b)

SpecRadio == InitRadio /\ [][NextRadio]_vars

(* --------------- DateInput (widgets/DateInput/DateInput.tsx) ------------ *)

\* The dates the user may pick and the script may give as default.
Dates ==
  {[year |-> 2019, month |-> m, day |-> d] : m \in {7, 12}, d \in {4, 25}}

\* String.prototype.padStart(width, '0') on a string of digits.
RECURSIVE padStart(_, _)
padStart(digits, width) ==
  IF Len(digits) >= width THEN digits ELSE padStart(<<0>> \o digits, width)

\* Lines 83-85: moment(date).format('YYYY/MM/DD'); the string is held as
\* its three fields of digits, which the slashes separate.
dateToString(date) ==
  <<padStart(toString(date.year), 4), padStart(toString(date.month), 2),
    padStart(toString(date.day), 2)>>

\* The values of the element's default.
DateStrings == {dateToString(date) : date \in Dates}

\* A DateInput: the default of its element, its state.value, the string the
\* WidgetStateManager stores for its id, the handler that ran last with its
\* setStringValue calls and the default and state value it found, and
\* whether its updates went on without end.
DateInput(default, value, stored, handler, writes, looping) ==
  [default |-> default, value |-> value, stored |-> stored,
   handler |-> handler, found |-> [default |-> default, value |-> value],
   writes |-> writes, looping |-> looping]

\* What a handler finds: the default of the element and the state value.
found(d) == [default |-> d.default, value |-> d.value]

\* WidgetStateManager.setStringValue: stores the value under the widget id.
setStringValue(d, value) ==
  [d EXCEPT !.stored = <<value>>, !.writes = Append(d.writes, value)]

\* Lines 54-57.
setDateWidgetValue(d) == setStringValue(d, d.value)

\* The updates one commit may cause before they count as endless.
MaxUpdateDepth == 3

\* A faulty comparison: every update counts as a change of the default.
defaultChangedAlways(oldDefaultValue, newDefaultValue) == TRUE

\* Line 49.
defaultChanged(oldDefaultValue, newDefaultValue) ==
  oldDefaultValue # newDefaultValue

\* Lines 45-52, with the update that its own setState causes: the state is
\* set, componentDidUpdate runs again with prevProps equal to the props, and
\* then the callback of the setState writes the state value.
RECURSIVE componentDidUpdateDate(_, _, _)
componentDidUpdateDate(d, oldDefaultValue, depth) ==
  IF ~defaultChanged(oldDefaultValue, d.default)
    THEN d
    ELSE IF depth = 0
      THEN [d EXCEPT !.looping = TRUE]
      ELSE LET set == [d EXCEPT !.value = d.default]
               updated == componentDidUpdateDate(set, d.default, depth - 1)
           IN  setDateWidgetValue(updated)

\* The parent renders the DateInput with an element whose default is
\* newDefault, the old one or another.
DateInputUpdate(newDefault) ==
  /\ dateInput' =
       componentDidUpdateDate(
         [dateInput EXCEPT !.default = newDefault, !.handler = "update",
                           !.found = found(dateInput), !.writes = <<>>],
         dateInput.default, MaxUpdateDepth)
  /\ UNCHANGED exceptDateInput

\* Lines 59-62, with the update the setState causes.
HandleChange(date) ==
  /\ LET set == [dateInput EXCEPT !.value = dateToString(date),
                                  !.handler = "handleChange",
                                  !.found = found(dateInput), !.writes = <<>>]
         updated == componentDidUpdateDate(set, set.default, MaxUpdateDepth)
     IN  dateInput' = setDateWidgetValue(updated)
  /\ UNCHANGED exceptDateInput

\* A DateInput just constructed (lines 41-43); the registry may hold a
\* value of an earlier run.
InitDateInput ==
  /\ NoUploader
  /\ NoBlock
  /\ radio = Absent
  /\ \E default \in DateStrings,
        stored \in {<<>>} \cup {<<s>> : s \in DateStrings} :
       dateInput = DateInput(default, default, stored, "none", <<>>, FALSE)
  /\ guest = Absent
  /\ script = Absent

NextDateInput ==
  \/ \E newDefault \in DateStrings : DateInputUpdate(newDefault)
  \/ \E date \in Dates : HandleChange(date)

SpecDateInput == InitDateInput /\ [][NextDateInput]_vars

(* ------------- useS4ACommunication (hocs/withS4ACommunication) ---------- *)

S4A_COMM_VERSION == [type |-> "number", value |-> 1]

\* Values a message may carry as stCommVersion: numbers and a string.
Versions ==
  {S4A_COMM_VERSION, [type |-> "number", value |-> 2],
   [type |-> "string", value |-> 1]}

\* window.location.origin and the origin of another window.
Origins == {"own", "foreign"}

\* Lines 5-13.
IMenuItems ==
  {[type |-> "text", label |-> "Share", key |-> "share"],
   [type |-> "separator", label |-> "", key |-> ""]}

ItemLists ==
  {<<>>} \cup {<<a>> : a \in IMenuItems}
         \cup {<<a, b>> : a \in IMenuItems, b \in IMenuItems}

\* Lines 15-25: the messages of the host; a message of another type has
\* no items.
HostMessages ==
  {[stCommVersion |-> v, type |-> "SET_MENU_ITEMS", items |-> l] :
     v \in Versions, l \in ItemLists \ {<<>>}}
  \cup {[stCommVersion |-> v, type |-> "UPDATE_FROM_QUERY_PARAMS",
         items |-> <<>>] : v \in Versions}

MessageEvents == {[origin |-> o, data |-> m] : o \in Origins, m \in HostMessages}

NoEvent == [origin |-> "", data |-> <<>>]

\* Lines 52-60: the message posted to the parent window, after those
\* posted before.
sendMessage(g, message) ==
  [g EXCEPT !.sent = Append(g.sent, [stCommVersion |-> S4A_COMM_VERSION,
                                     type |-> message.type,
                                     key |-> message.key])]

\* A faulty test of the origin: every origin passes.
sameOriginAny(origin) == TRUE

\* Line 81.
sameOrigin(origin) == origin = "own"

\* Lines 77-89: the items after the listener has handled the event.
receiveMessage(items, event) ==
  LET message == event.data
  IN  IF ~sameOrigin(event.origin) \/ message.stCommVersion # S4A_COMM_VERSION
        THEN items
        ELSE IF message.type = "SET_MENU_ITEMS" THEN message.items ELSE items

\* The component that uses the hook: its items, whether its effects have
\* run, the messages posted to the host, and the last event the listener
\* handled with the items it found.
Guest(items, mounted, sent, event, itemsFound) ==
  [items |-> items, mounted |-> mounted, sent |-> sent, event |-> event,
   found |-> itemsFound]

\* Lines 70-74 and 76-96: the two effects of the first render.
GuestMount ==
  /\ ~guest.mounted
  /\ guest' = sendMessage([guest EXCEPT !.mounted = TRUE, !.event = NoEvent],
                          [type |-> "GUEST_READY", key |-> ""])
  /\ UNCHANGED exceptGuest

\* A message event of the window, handled by the registered listener.
ReceiveMessage(event) ==
  /\ guest.mounted
  /\ guest' = [guest EXCEPT !.items = receiveMessage(guest.items, event),
                            !.event = event, !.found = guest.items]
  /\ UNCHANGED exceptGuest

\* MainMenu.tsx lines 187 and 474: a click on a text item of the menu.
MenuItemCallback(i) ==
  /\ guest.mounted
  /\ Len(guest.sent) < MaxSent
  /\ i \in DOMAIN guest.items
  /\ guest.items[i].type = "text"
  /\ guest' = sendMessage([guest EXCEPT !.event = NoEvent],
                          [type |-> "MENU_ITEM_CALLBACK",
                           key |-> guest.items[i].key])
  /\ UNCHANGED exceptGuest

\* Line 68: the state of the first render.
InitGuest ==
  /\ NoUploader
  /\ NoBlock
  /\ radio = Absent
  /\ dateInput = Absent
  /\ guest = Guest(<<>>, FALSE, <<>>, NoEvent, <<>>)
  /\ script = Absent

NextGuest ==
  \/ GuestMount
  \/ \E event \in MessageEvents : ReceiveMessage(event)
  \/ \E i \in 1..2 : MenuItemCallback(i)

SpecGuest == InitGuest /\ [][NextGuest]_vars

(* --------------------------- scripts/e2e.sh ----------------------------- *)

\* Values of the -a option; without the option the value is that of line 8.
AlwaysContinueValues == {"false", "true", "yes"}

\* Exit codes of the test run of one example file.
ExitCodes == {0, 1, 2}

\* What the user types at the prompt, as characters.
Answers == {<<"y">>, <<"Y", "e", "s">>, <<"n">>, <<>>}

\* The script under way: the place it has reached, its variables, the
\* number of example files and the index of the next one, whether the sh
\* of the machine knows read -p, whether some test run has failed, and
\* the exit status once it has exited.
Script(always_continue, nFiles, readHasP) ==
  [pc |-> "args", always_continue |-> always_continue, any_failed |-> "false",
   files |-> nFiles, file |-> 1, EXITCODE |-> 0, yn |-> <<>>,
   readHasP |-> readHasP, failed |-> FALSE, status |-> <<>>]

\* exit n; the EXIT trap of line 48 leaves the status as it is.
exit(s, n) == [s EXCEPT !.pc = "exited", !.status = <<n>>]

\* Lines 26-30.
CheckArguments ==
  /\ script.pc = "args"
  /\ script' = IF /\ script.always_continue # "false"
                  /\ script.always_continue # "true"
                 THEN exit(script, 1)
                 ELSE [script EXCEPT !.pc = "loop"]
  /\ UNCHANGED exceptScript

\* Lines 67-68: a failure with always_continue false leads to the prompt.
afterFailurePrompted(s) == [s EXCEPT !.pc = "prompt"]

\* Lines 58-75 for one file whose test run exits with the given code.
RunTest(code) ==
  /\ script.pc = "loop"
  /\ script.file <= script.files
  /\ LET ran == [script EXCEPT !.EXITCODE = code,
                               !.failed = script.failed \/ code # 0]
     IN  script' =
           IF code # 0 /\ ran.always_continue = "false"
             THEN afterFailurePrompted(ran)
             ELSE IF code # 0 /\ ran.always_continue = "true"
               THEN [ran EXCEPT !.any_failed = "true", !.file = ran.file + 1]
               ELSE [ran EXCEPT !.file = ran.file + 1]
  /\ UNCHANGED exceptScript

\* The pattern [Yy]* of line 70.
matchesYes(yn) == yn # <<>> /\ yn[1] \in {"Y", "y"}

\* Lines 68-72: read -p sets yn to the answer where sh knows the option -p
\* and fails, leaving yn empty, where it does not.
Prompt(answer) ==
  /\ script.pc = "prompt"
  /\ LET read == [script EXCEPT !.yn = IF script.readHasP THEN answer ELSE <<>>]
     IN  script' = IF matchesYes(read.yn)
                     THEN [read EXCEPT !.pc = "loop", !.file = read.file + 1]
                     ELSE exit(read, 1)
  /\ UNCHANGED exceptScript

\* Lines 76-81: after the last file; without exit the status is 0.
Finish ==
  /\ script.pc = "loop"
  /\ script.file > script.files
  /\ script' = IF script.any_failed = "true" THEN exit(script, 1)
                                             ELSE exit(script, 0)
  /\ UNCHANGED exceptScript

\* The script started with some -a value on a machine with some sh.
InitScript ==
  /\ NoUploader
  /\ NoBlock
  /\ radio = Absent
  /\ dateInput = Absent
  /\ guest = Absent
  /\ \E a \in AlwaysContinueValues, n \in 1..MaxFiles, p \in BOOLEAN :
       script = Script(a, n, p)

NextScript ==
  \/ CheckArguments
  \/ \E code \in ExitCodes : RunTest(code)
  \/ \E answer \in Answers : Prompt(answer)
  \/ Finish

SpecScript == InitScript /\ [][NextScript]_vars

TypeOK ==
  /\ disabled \in BOOLEAN
  /\ multipleFiles \in BOOLEAN
  /\ localFileIdCounter \in (-MaxIds - 1)..(-1)
  /\ DOMAIN uploads \subseteq LocalIds
  /\ Len(files) <= MaxIds

(* ------------------------------- claims --------------------------------- *)

Range(s) == {s[i] : i \in DOMAIN s}

Callbacks == {"uploadSuccess", "uploadFailure", "onUploadProgress"}

isLive(f) == f.status.type \in {"uploading", "uploaded"}

\* The one write a handler makes when it publishes a list as user input.
uiWriteOf(ws, value) ==
  /\ Len(ws) = 1
  /\ ws[1].value = value
  /\ ws[1].fromUi

noUiWrite(ws) == \A i \in DOMAIN ws : ~ws[i].fromUi

\* C1: a success, failure or progress callback that arrives for a local id
\* whose record is no longer in the collection (deleted, replaced or reset
\* away) leaves the collection exactly as it was: no record is re-created
\* and no remaining record changes.
C1_LateCallbackChangesNothing ==
  [][(act'.name \in Callbacks /\ act'.id \notin Ids(files)) => files' = files]_vars

\* C1 witness: one upload was started, deleted (cancelled) before it settled,
\* and its success callback has now been delivered; the collection is empty.
C1_Witness ==
  /\ act.name = "uploadSuccess"
  /\ act.id = -1
  /\ act.cancelled
  /\ localFileIdCounter = -2
  /\ files = <<>>

\* C2 (as claimed): a single-file uploader never holds more than one record
\* that is Uploading or Uploaded.
C2_AtMostOneLiveRecord ==
  ~multipleFiles => Cardinality({i \in DOMAIN files : isLive(files[i])}) <= 1

\* C3 (as claimed): when a single-file uploader with a record present is
\* handed exactly one accepted file, the drop leaves exactly one record, the
\* new Uploading one, and cancels the upload of the record it replaced if
\* that record was Uploading.
C3_ReplaceLeavesOneAndCancels ==
  [][(/\ ~multipleFiles
      /\ act'.name = "dropHandler"
      /\ act'.accepted # <<>>
      /\ act'.rejected = <<>>
      /\ Len(files) > 0)
     => /\ Len(files') = 1
        /\ files'[1].id = localFileIdCounter
        /\ files'[1].status.type = "uploading"
        /\ files[1].status.type = "uploading"
             => files[1].status.cancelToken \in effects'.cancelled]_vars

\* The precondition of C4: a multi-file uploader whose only two records ever
\* are the first (still Uploading) and the second (already Uploaded as 9),
\* and the first upload now succeeds with id 5.
C4_Case ==
  /\ multipleFiles
  /\ localFileIdCounter = -3
  /\ Len(files) = 2
  /\ files[1].id = -1 /\ files[1].status.type = "uploading"
  /\ files[2].id = 9 /\ files[2].status.type = "uploaded"
  /\ act'.name = "uploadSuccess" /\ act'.id = -1 /\ act'.newId = 5

\* C4 (as claimed): in that case the registry is written once, with [9,5]
\* marked fromUi:true.
C4_WritesCompletionOrder ==
  [][C4_Case => uiWriteOf(effects'.writes, <<9, 5>>)]_vars

\* C4 (amended): in that case the registry is written exactly once in that
\* update, with the list in collection order, [5,9], marked fromUi:true; a
\* multi-file uploader writes nothing in an update that leaves a record
\* Uploading; and an update that leaves the collection unchanged writes
\* no fromUi:true value, so the list is not written again.
C4_WritesCollectionOrderOnce ==
  [][/\ C4_Case => uiWriteOf(effects'.writes, <<5, 9>>)
     /\ (multipleFiles /\ status(files') = "updating") => effects'.writes = <<>>
     /\ files' = files => noUiWrite(effects'.writes)]_vars

\* C4 witness: the first upload succeeded last, both records are Uploaded as
\* [5,9] in collection order and that list was just written.
C4_Witness ==
  /\ multipleFiles
  /\ localFileIdCounter = -3
  /\ act.name = "uploadSuccess" /\ act.id = -1 /\ act.newId = 5
  /\ uploadedFileIds(files) = <<5, 9>>
  /\ uiWriteOf(effects.writes, <<5, 9>>)
  /\ registry = [kind |-> "int", data |-> <<5, 9>>]

\* C5: every registry write other than the disabled reset is a fromUi:true
\* write made while the status is "ready" (no record Uploading), of the
\* list of Uploaded ids, and that list differs from the value last pushed;
\* a fromUi:false write is made only by the disabled reset.
C5_WritesOnlyWhenReadyAndChanged ==
  \A i \in DOMAIN effects.writes :
    LET w == effects.writes[i]
    IN IF w.fromUi
         THEN /\ w.status = "ready"
              /\ w.value = w.uploaded
              /\ w.value # w.prev
              /\ i > 1 => effects.writes[i - 1].value # w.value
         ELSE act.name = "setDisabled" /\ disabled /\ w.value = <<>>

\* C5 witness: an uploader that had published [5] has just published [9],
\* after an update in which it had to wait for the upload to finish.
C5_Witness ==
  /\ act.name = "uploadSuccess"
  /\ Len(effects.writes) = 1
  /\ effects.writes[1].fromUi
  /\ effects.writes[1].prev = <<5>>
  /\ effects.writes[1].value = <<9>>

\* C6: a props update that turns disabled from false to true empties the
\* collection and writes the empty list with fromUi:false (and nothing
\* else) in that same update, whatever is Uploading, without settling or
\* cancelling any upload; any other props update (true to false, or disabled
\* unchanged) removes no record and makes no fromUi:false write.
C6_DisabledReset ==
  [][act'.name = "setDisabled" =>
       IF ~disabled /\ disabled'
         THEN /\ files' = <<>>
              /\ Len(effects'.writes) = 1
              /\ effects'.writes[1].value = <<>>
              /\ ~effects'.writes[1].fromUi
              /\ registry'.data = <<>>
              /\ uploads' = uploads
         ELSE /\ files' = files
              /\ \A i \in DOMAIN effects'.writes : effects'.writes[i].fromUi
              /\ uploads' = uploads]_vars

\* C6 witness: the widget was disabled while a record was Uploading; the
\* collection is empty, [] was written with fromUi:false, and the upload is
\* still in flight, neither settled nor cancelled.
C6_Witness ==
  /\ act.name = "setDisabled"
  /\ disabled
  /\ files = <<>>
  /\ Len(effects.writes) = 1
  /\ effects.writes[1].status = "updating"
  /\ ~effects.writes[1].fromUi
  /\ \E id \in DOMAIN uploads : ~uploads[id].cancelled

\* The records a drop added: those whose id it allocated.
addedBy(fs, counter) ==
  LET isNew(f) == f.id <= counter
  IN SelectSeq(fs, isNew)

onlyTooManyFiles(rejected) ==
  \A j \in DOMAIN rejected : rejected[j].errors = <<"too-many-files">>

\* C7: when a single-file uploader is handed no accepted file and two or
\* more rejections, all rejected only for too-many-files, the drop adds one
\* Uploading record, for the first rejected file, starts one upload (that
\* one), and adds for every other file an Error record saying "Only one file
\* is allowed."; in multi-file mode, or when a file was accepted, the drop
\* starts uploads for the accepted files only and every rejected file gets
\* an Error record.
C7_SalvageFirstRejection ==
  [][act'.name = "dropHandler" =>
       LET new == addedBy(files', localFileIdCounter)
           rej == act'.rejected
       IN /\ (/\ ~multipleFiles
              /\ act'.accepted = <<>>
              /\ Len(rej) >= 2
              /\ onlyTooManyFiles(rej))
             => /\ Len(new) = Len(rej)
                /\ new[1].file = rej[1].file
                /\ new[1].id = localFileIdCounter
                /\ new[1].status.type = "uploading"
                /\ effects'.started = <<localFileIdCounter>>
                /\ DOMAIN uploads' = DOMAIN uploads \cup {localFileIdCounter}
                /\ \A j \in 2..Len(rej) :
                     /\ new[j].file = rej[j].file
                     /\ new[j].status.type = "error"
                     /\ new[j].status.errorMessage
                          = <<"Only one file is allowed.">>
          /\ (multipleFiles \/ act'.accepted # <<>>)
             => /\ Len(effects'.started) = Len(act'.accepted)
                /\ Len(new) = Len(act'.accepted) + Len(rej)
                /\ \A j \in DOMAIN rej :
                     /\ new[Len(act'.accepted) + j].file = rej[j].file
                     /\ new[Len(act'.accepted) + j].status.type = "error"]_vars

\* C7 witness: a single-file uploader was handed two files, both rejected
\* for too-many-files; the first is Uploading and the second is an Error
\* record.
C7_Witness ==
  /\ ~multipleFiles
  /\ act.name = "dropHandler"
  /\ act.accepted = <<>>
  /\ Len(act.rejected) = 2
  /\ onlyTooManyFiles(act.rejected)
  /\ Len(effects.started) = 1
  /\ \E i \in DOMAIN files :
       /\ files[i].file = 1
       /\ files[i].status.type = "uploading"
       /\ i < Len(files)
       /\ files[i + 1].file = 2
       /\ files[i + 1].status.errorMessage = <<"Only one file is allowed.">>

\* The message the mapping of rejection codes gives, as the claim lists it.
messageOfCode(code, file) ==
  IF code = "file-too-large" THEN <<"File must be MAX or smaller.">>
  ELSE IF code = "file-invalid-type"
         THEN <<<<"type-of", file>>, " files are not allowed.">>
  ELSE IF code = "file-too-small" THEN <<"File size is too small.">>
  ELSE IF code = "too-many-files" THEN <<"Only one file is allowed.">>
  ELSE <<"Unexpected error. Please try again.">>

\* The files for which the drop just handled started an upload.
startedFiles(ups, started) == {ups[started[k]].info.file : k \in DOMAIN started}

\* C8: for every rejected file of a drop that was left rejected (no upload
\* was started for it), the drop adds exactly one record; that record is
\* created in Error status with the message the code mapping gives for the
\* first error code of the rejection, and no upload exists for its id.  An
\* Error record never changes afterwards, and no upload ever appears for the
\* id of an Error record that has none.
C8_RejectedBecomeErrorRecords ==
  [][/\ act'.name = "dropHandler" =>
          LET new == addedBy(files', localFileIdCounter)
              rej == act'.rejected
          IN \A j \in DOMAIN rej :
               rej[j].file \notin startedFiles(uploads', effects'.started)
               => /\ Cardinality({i \in DOMAIN new : new[i].file = rej[j].file})
                       = 1
                  /\ \E i \in DOMAIN new :
                       /\ new[i].file = rej[j].file
                       /\ new[i].status.type = "error"
                       /\ new[i].status.errorMessage
                            = messageOfCode(rej[j].errors[1], rej[j].file)
                       /\ new[i].id \notin DOMAIN uploads'
     /\ \A i \in DOMAIN files :
          files[i].status.type = "error"
          => /\ \A k \in DOMAIN files' :
                  files'[k].id = files[i].id => files'[k] = files[i]
             /\ files[i].id \notin DOMAIN uploads
                  => files[i].id \notin DOMAIN uploads']_vars

\* C8 witness: a drop rejected a file for an unrecognised code next to one
\* that was too small; both are Error records, with the messages of the
\* mapping, and no upload was started.
C8_Witness ==
  /\ act.name = "dropHandler"
  /\ Len(act.rejected) = 2
  /\ act.rejected[1].errors = <<"other-code">>
  /\ act.rejected[2].errors = <<"file-too-small">>
  /\ effects.started = <<>>
  /\ uploads = <<>>
  /\ Len(files) = 2
  /\ files[1].status.errorMessage = <<"Unexpected error. Please try again.">>
  /\ files[2].status.errorMessage = <<"File size is too small.">>

\* The records of a collection that an update did not add.
keptBy(fs, counter) ==
  LET isOld(f) == f.id > counter
  IN SelectSeq(fs, isOld)

withoutId(fs, id) ==
  LET other(f) == f.id # id
  IN SelectSeq(fs, other)

RECURSIVE isSubSeq(_, _)
isSubSeq(a, b) ==
  IF a = <<>> THEN TRUE
  ELSE IF b = <<>> THEN FALSE
  ELSE IF Head(a) = Head(b) THEN isSubSeq(Tail(a), Tail(b))
  ELSE isSubSeq(a, Tail(b))

\* What a transport callback may do to the record at one position.
callbackTransition(r, r2, a) ==
  \/ r2 = r
  \/ /\ r.status.type = "uploading"
     /\ r.id = a.id
     /\ r2.file = r.file
     /\ \/ a.name = "uploadSuccess" /\ r2.status.type = "uploaded"
        \/ /\ a.name = "uploadFailure" /\ ~isCancel(a.err)
           /\ r2.status.type = "error" /\ r2.id = r.id
        \/ /\ a.name = "onUploadProgress"
           /\ r2.status.type = "uploading" /\ r2.id = r.id
           /\ r2.status.cancelToken = r.status.cancelToken

C10_SettleUpdatesRecordInPlace ==
  [][(act'.name \in {"uploadSuccess", "uploadFailure"} /\ act'.id \in Ids(files))
     => \E i \in DOMAIN files :
          /\ files[i].id = act'.id
          /\ IF act'.name = "uploadSuccess"
               THEN /\ files' = [files EXCEPT ![i] =
                                   UploadFileInfo(files[i].file, act'.newId,
                                                  UploadedStatus)]
                    /\ act'.id \notin Ids(files')
               ELSE IF isCancel(act'.err)
                      THEN files' = files
                      ELSE /\ files'[i].status.errorMessage # <<>>
                           /\ files' = [files EXCEPT ![i] =
                                          UploadFileInfo(
                                            files[i].file, files[i].id,
                                            ErrorStatus(
                                              files'[i].status.errorMessage))]
     ]_vars

\* C10 witness: of two records the first has just become Uploaded under
\* the transport's id while the second, added later, is still Uploading.
C10_Witness ==
  /\ act.name = "uploadSuccess"
  /\ Len(files) = 2
  /\ files[1].id = act.newId
  /\ files[1].status.type = "uploaded"
  /\ files[2].status.type = "uploading"
  /\ act.id \notin Ids(files)

\* The ids of the Uploaded records of a collection, in collection order.
idsOfUploaded(fs) ==
  LET up(f) == f.status.type = "uploaded"
      s == SelectSeq(fs, up)
  IN [k \in DOMAIN s |-> s[k].id]

noneUploading(fs) == \A i \in DOMAIN fs : fs[i].status.type # "uploading"

hasFailed(fs) == \E i \in DOMAIN fs : fs[i].status.type = "error"

\* C11: a progress, success or failure callback for one upload keeps the
\* length of the collection and leaves every record with another id exactly
\* as it was, at its position.  An Error record in the collection blocks
\* nothing: a success callback for a record in the collection still makes it
\* Uploaded, and as soon as no record is Uploading the registry holds exactly
\* the ids of the Uploaded records.
C11_PerFileIsolation ==
  [][act'.name \in Callbacks
       => /\ Len(files') = Len(files)
          /\ \A i \in DOMAIN files :
               files[i].id # act'.id => files'[i] = files[i]
          /\ \A i \in DOMAIN files :
               (act'.name = "uploadSuccess" /\ files[i].id = act'.id)
               => files'[i].status.type = "uploaded"
          /\ (hasFailed(files') /\ noneUploading(files'))
               => registry'.data = idsOfUploaded(files')]_vars

\* C11 witness: of two uploads the first failed; the second has just
\* succeeded and its id was published, next to the Error record.
C11_Witness ==
  /\ act.name = "uploadSuccess"
  /\ Len(files) = 2
  /\ files[1].status.type = "error"
  /\ files[1].status.errorMessage = <<"Error: Network Error">>
  /\ files[2].status.type = "uploaded"
  /\ files[2].id = act.newId
  /\ uiWriteOf(effects.writes, <<act.newId>>)

\* p is event.loaded * 100 / event.total rounded to the nearest integer.
isPercentOf(p, event) ==
  /\ 2 * p * event[2] - event[2] <= 200 * event[1]
  /\ 200 * event[1] < 2 * p * event[2] + event[2]

C13_DeleteRemovesAndCancels ==
  [][act'.name = "deleteFile"
       => IF act'.id \in Ids(files)
            THEN LET i == CHOOSE j \in DOMAIN files :
                            /\ files[j].id = act'.id
                            /\ \A k \in 1..(j - 1) : files[k].id # act'.id
                 IN /\ effects'.cancelled =
                         IF files[i].status.type = "uploading"
                           THEN {files[i].status.cancelToken}
                           ELSE {}
                    /\ \A t \in DOMAIN uploads :
                         uploads'[t].cancelled =
                           (uploads[t].cancelled \/ t \in effects'.cancelled)
                    /\ act'.id \notin Ids(files')
                    /\ files' = withoutId(files, act'.id)
            ELSE /\ files' = files
                 /\ registry' = registry
                 /\ uploads' = uploads
                 /\ effects' = NoEffects]_vars

\* C13 witness: the first of two Uploading records has just been deleted and
\* its upload cancelled; the second record is the collection that is left,
\* its upload still running.
C13_Witness ==
  /\ act.name = "deleteFile"
  /\ effects.cancelled = {act.id}
  /\ act.id \in DOMAIN uploads
  /\ uploads[act.id].cancelled
  /\ Len(files) = 1
  /\ files[1].id < act.id
  /\ files[1].status.type = "uploading"
  /\ ~uploads[files[1].id].cancelled

\* C14: in every reachable state the status getter yields "updating" when
\* some record of the collection is Uploading and "ready" when none is, so a
\* collection of Error and Uploaded records only is "ready".
C14_StatusIsUpdatingIffUploading ==
  /\ status(files) \in {"updating", "ready"}
  /\ status(files) = "updating" <=> ~noneUploading(files)
  /\ status(files) = "ready" <=> noneUploading(files)

\* C14 witness: an Error record and an Uploaded record, nothing Uploading.
C14_Witness ==
  /\ Len(files) = 2
  /\ files[1].status.type = "error"
  /\ files[2].status.type = "uploaded"
  /\ status(files) = "ready"

\* The records a drop of n files appended: the last n of the collection.
lastRecords(fs, n) == SubSeq(fs, Len(fs) - n + 1, Len(fs))

\* C15: the ids a drop allocates, one per dropped file whether accepted or
\* rejected, are negative, strictly decreasing in allocation order (the
\* accepted files first, then the rejected ones, which is the order of the
\* records in the collection) and lower than every local id allocated
\* before; hence the records of the collection that carry a local id carry
\* pairwise different ones, and the counter stays negative and below them.
C15_LocalIdsNegativeDecreasing ==
  [][/\ act'.name = "dropHandler"
          => LET n == Len(act'.accepted) + Len(act'.rejected)
                 new == lastRecords(files', n)
             IN /\ Len(files') >= n
                /\ \A k \in DOMAIN new : new[k].id < 0
                /\ \A k, l \in DOMAIN new : k < l => new[k].id > new[l].id
                /\ \A k \in DOMAIN new :
                     \A old \in Ids(files) \cup DOMAIN uploads :
                       old < 0 => new[k].id < old
                /\ localFileIdCounter' = localFileIdCounter - n
     /\ act'.name # "dropHandler" => localFileIdCounter' = localFileIdCounter
     /\ localFileIdCounter' < 0
     /\ \A i \in DOMAIN files' :
          files'[i].id < 0 => files'[i].id > localFileIdCounter'
     /\ \A i, j \in DOMAIN files' :
          (i # j /\ files'[i].id < 0) => files'[i].id # files'[j].id]_vars

\* C15 witness: a drop of an accepted and a rejected file has followed a
\* drop of one file; the three records hold the ids -1, -2 and -3.
C15_Witness ==
  /\ act.name = "dropHandler"
  /\ Len(act.accepted) = 1
  /\ Len(act.rejected) = 1
  /\ Len(files) = 3
  /\ files[1].id = -1
  /\ files[2].id = -2
  /\ files[2].status.type = "uploading"
  /\ files[3].id = -3
  /\ files[3].status.type = "error"
  /\ localFileIdCounter = -4

\* What a drop does for the files it hands to uploadFile, with the progress
\* a new record starts at as a parameter: every accepted file gets an
\* upload; every upload started is a new one, for a file of its own, and
\* exactly one record of the collection carries its id, Uploading, with its
\* cancel token, for the same file, at the given progress; the drop appends
\* no other Uploading record.  Only a drop starts uploads, and a callback is
\* handled only for an upload a previous drop started.
uploadFileAdds(progress) ==
  /\ act'.name = "dropHandler"
       => LET n == Len(act'.accepted) + Len(act'.rejected)
              new == lastRecords(files', n)
              started == effects'.started
          IN /\ \A k \in DOMAIN act'.accepted :
                  \E s \in DOMAIN started :
                    uploads'[started[s]].info.file = act'.accepted[k]
             /\ \A s, t \in DOMAIN started :
                  s # t => /\ started[s] # started[t]
                           /\ uploads'[started[s]].info.file
                                # uploads'[started[t]].info.file
             /\ \A s \in DOMAIN started :
                  /\ started[s] \notin DOMAIN uploads
                  /\ ~uploads'[started[s]].cancelled
                  /\ Cardinality({i \in DOMAIN files' :
                                    files'[i].id = started[s]}) = 1
                  /\ \A i \in DOMAIN files' :
                       files'[i].id = started[s]
                       => /\ files'[i].status.type = "uploading"
                          /\ files'[i].status.cancelToken = started[s]
                          /\ files'[i].status.progress = progress
                          /\ files'[i].file = uploads'[started[s]].info.file
             /\ Cardinality({i \in DOMAIN new :
                               new[i].status.type = "uploading"})
                  = Len(started)
             /\ DOMAIN uploads' = DOMAIN uploads \cup Range(started)
  /\ act'.name # "dropHandler"
       => /\ effects'.started = <<>>
          /\ DOMAIN uploads' \subseteq DOMAIN uploads
  /\ act'.name \in Callbacks => act'.id \in DOMAIN uploads

\* C16 as stated: uploadFile adds, for every accepted file, one Uploading
\* record with progress 0 and starts one upload for it, the record being in
\* the collection before a callback of the upload is handled.
C16_StartsAtProgressZero == [][uploadFileAdds(0)]_vars

\* C16, amended: uploadFile adds, for every accepted file, one Uploading
\* record with progress 1 and starts one upload for it, the record being in
\* the collection before a callback of the upload is handled.
C16_StartsAtProgressOne == [][uploadFileAdds(1)]_vars

\* C16 witness: a drop of two accepted files has added two Uploading
\* records at progress 1 and started the two uploads.
C16_Witness ==
  /\ act.name = "dropHandler"
  /\ Len(act.accepted) = 2
  /\ Len(effects.started) = 2
  /\ Len(files) = 2
  /\ \A i \in 1..2 :
       /\ files[i].status.type = "uploading"
       /\ files[i].status.progress = 1
       /\ files[i].id = effects.started[i]
       /\ files[i].id \in DOMAIN uploads

\* C17 as stated: every list written to the registry is the list of the ids
\* of the records that are Uploaded when it is written, in collection
\* order, and holds positive ids only.
C17_EveryWriteIsUploadedIds ==
  \A i \in DOMAIN effects.writes :
    /\ effects.writes[i].value = effects.writes[i].uploaded
    /\ \A k \in DOMAIN effects.writes[i].value :
         effects.writes[i].value[k] > 0

\* C17, amended: every list written as user input is the list of the ids of
\* the records that are Uploaded when it is written, in collection order;
\* its elements are positive ids the transport returned, none of them the
\* id of an Uploading or Error record.  The only other write is the empty
\* list of the disabled reset, whatever the collection holds at that time.
\* The registry holds the last list written, and after a handler whose last
\* write was user input that list is the ids of the Uploaded records of the
\* collection, in order.
C17_UiWritesAreUploadedIds ==
  LET ws == effects.writes
  IN /\ \A i \in DOMAIN ws :
          IF ws[i].fromUi
            THEN /\ ws[i].value = ws[i].uploaded
                 /\ \A k \in DOMAIN ws[i].value : ws[i].value[k] \in ServerIds
            ELSE ws[i].value = <<>>
     /\ ws # <<>>
          => /\ registry.data = ws[Len(ws)].value
             /\ ws[Len(ws)].fromUi
                  => /\ ws[Len(ws)].value = idsOfUploaded(files)
                     /\ \A i \in DOMAIN files :
                          files[i].status.type # "uploaded"
                          => \A k \in DOMAIN registry.data :
                               registry.data[k] # files[i].id
     /\ \A k \in DOMAIN registry.data : registry.data[k] > 0

\* C17 witness: an upload has just succeeded next to an Error record; the
\* list written is the transport's id alone, the Error record's local id is
\* not in it.
C17_Witness ==
  /\ act.name = "uploadSuccess"
  /\ Len(files) = 2
  /\ files[1].status.type = "uploaded"
  /\ files[2].status.type = "error"
  /\ files[2].id < 0
  /\ uiWriteOf(effects.writes, <<files[1].id>>)
  /\ registry.data = <<act.newId>>

\* The element nodes of a render: those of the root Block and those of the
\* Blocks nested in it.
elementNodes(r) ==
  {n \in Range(r.nodes) : n.component # <<>>}
  \cup UNION {{c \in Range(n.children) : c.component # <<>>} :
                n \in Range(r.nodes)}

simpleElements(p) ==
  {e \in Range(p.elements) : e.kind = "map"}
  \cup UNION {{c \in Range(e.elements) : c.kind = "map"} :
                e \in Range(p.elements)}

staleByRule(element, p) ==
  \/ p.reportRunState = "RERUN_REQUESTED"
  \/ p.reportRunState = "RUNNING" /\ element.reportId # p.reportId

\* C18: an element is stale exactly when the run state is RerunRequested, or
\* is Running and the element comes from another run than the current one;
\* so no element is stale when the report is not running and every element
\* is stale when a rerun is requested.  The element containers rendered
\* carry the stale class for exactly these elements when the indicator is
\* shown.
C18_StalenessRule ==
  /\ \A e \in simpleElements(blockProps) :
       /\ isStaleElement(e, blockProps) <=> staleByRule(e, blockProps)
       /\ blockProps.reportRunState = "NOT_RUNNING"
            => ~isStaleElement(e, blockProps)
       /\ blockProps.reportRunState = "RERUN_REQUESTED"
            => isStaleElement(e, blockProps)
  /\ \A n \in elementNodes(rendered) :
       n.className = "element-container stale-element"
       <=> /\ blockProps.showStaleElementIndicator
           /\ staleByRule(n.component[1].element, blockProps)

\* C18 witness: run "B" is running; of two rendered texts the one from run
\* "A" is marked stale and the one from run "B" is not.
C18_Witness ==
  /\ blockProps.reportRunState = "RUNNING"
  /\ blockProps.reportId = "B"
  /\ blockProps.showStaleElementIndicator
  /\ ~rendered.thrown
  /\ Len(rendered.nodes) = 2
  /\ \A i \in 1..2 : rendered.nodes[i].component # <<>>
  /\ rendered.nodes[1].component[1].element = ImmutableMap("text", "A", "")
  /\ rendered.nodes[1].className = "element-container stale-element"
  /\ rendered.nodes[2].component[1].element = ImmutableMap("text", "B", "")
  /\ rendered.nodes[2].className = "element-container"

\* The keys of the nodes a render gave to the widget with the given id, when
\* the root Block holds that widget exactly once.
keysOfWidget(p, r, id) ==
  IF Cardinality({i \in DOMAIN p.elements : p.elements[i].id = id}) = 1
    THEN {n.key : n \in {m \in Range(r.nodes) :
                           /\ m.component # <<>>
                           /\ m.component[1].element.id = id}}
    ELSE {}

\* C19: from one snapshot of the tree to the next, a widget of the root
\* Block that is rendered in both keeps the key of its node, also when an
\* element was inserted or removed before it.
C19_StableKey ==
  [][\A id \in {"w1", "w2"} :
       \A k1 \in keysOfWidget(blockProps, rendered, id) :
         \A k2 \in keysOfWidget(blockProps', rendered', id) : k1 = k2]_vars

\* An element renderElement throws for: it is missing, or no renderer is
\* registered for its type.
isMalformed(e) ==
  \/ e.kind = "undefined"
  \/ e.kind = "map" /\ e.type \notin ElementTypes \cup WidgetTypes

\* C20: when a child of the root Block is malformed, every sibling of it
\* that is a nested Block or a well-formed, non-empty element is still
\* rendered: its node is among the nodes of the Block, under its key.
C20_MalformedChildContained ==
  (\E i \in DOMAIN blockProps.elements : isMalformed(blockProps.elements[i]))
  => \A j \in DOMAIN blockProps.elements :
       (/\ ~isMalformed(blockProps.elements[j])
        /\ blockProps.elements[j].type # "empty")
       => \E n \in Range(rendered.nodes) : n.key = j - 1

\* The nodes of a render without their stale markers.
withoutStaleMarker(node) ==
  [node EXCEPT !.className =
     IF @ = "element-container stale-element" THEN "element-container" ELSE @]

unmarked(r) ==
  [r EXCEPT !.nodes =
     [i \in DOMAIN r.nodes |->
        withoutStaleMarker(
          [r.nodes[i] EXCEPT !.children =
             [j \in DOMAIN r.nodes[i].children |->
                withoutStaleMarker(r.nodes[i].children[j])]])]]

C22_EnablementTopDown ==
  \A n \in elementNodes(rendered) :
    IF n.component[1].type \in WidgetTypes
      THEN n.component[1].disabled = <<blockProps.widgetsDisabled>>
      ELSE n.component[1].disabled = <<>>

\* C22 witness: the root Block is disabled; its own button and the button
\* of a nested Block are both rendered disabled.
C22_Witness ==
  /\ blockProps.widgetsDisabled
  /\ ~rendered.thrown
  /\ \E n \in Range(rendered.nodes) :
       /\ n.component # <<>>
       /\ n.component[1].type = "button"
       /\ n.component[1].disabled = <<TRUE>>
  /\ \E n \in Range(rendered.nodes) :
       /\ n.className = "stBlock"
       /\ Len(n.children) = 1
       /\ n.children[1].component[1].type = "button"
       /\ n.children[1].component[1].disabled = <<TRUE>>

\* The element nodes a render pushed for the element at position i.
nodesAt(r, i) == {n \in Range(r.nodes) : n.key = i - 1 /\ n.component # <<>>}

\* C23: when the root Block is rendered while the report is running and the
\* element at position i is of type 'empty', the node the previous render
\* pushed for position i, if there was one, is pushed again, with the same
\* component (the old element is repeated); in any other run state an
\* 'empty' element gets no node.
C23_EmptyRepeatsOldElement ==
  [][~rendered'.thrown
       => \A i \in DOMAIN blockProps'.elements :
            (/\ blockProps'.elements[i].kind = "map"
             /\ blockProps'.elements[i].type = "empty")
            => IF blockProps'.reportRunState = "RUNNING"
                 THEN \A n \in nodesAt(rendered, i) :
                        \E n2 \in nodesAt(rendered', i) :
                          n2.component = n.component
                 ELSE nodesAt(rendered', i) = {}]_vars

nothingPublished(fs, reg) == idsOfUploaded(fs) = <<>> /\ reg.data = <<>>

\* C25: the update in which disabled turns from false to true makes the one
\* write of the empty list with fromUi:false and no write with fromUi:true,
\* also in the update that clearing the records causes, and leaves nothing
\* published.  From then on, as long as no upload reaches Uploaded, no
\* handler writes with fromUi:true and nothing is published; the first
\* fromUi:true write is made when an upload reaches Uploaded, and a write
\* for a deleted Uploaded record can only follow that.
C25_NoWriteAfterReset ==
  [][/\ (act'.name = "setDisabled" /\ ~disabled /\ disabled')
          => /\ Len(effects'.writes) = 1
             /\ noUiWrite(effects'.writes)
             /\ nothingPublished(files', registry')
     /\ (/\ nothingPublished(files, registry)
         /\ ~(act'.name = "uploadSuccess" /\ idsOfUploaded(files') # <<>>))
          => /\ noUiWrite(effects'.writes)
             /\ nothingPublished(files', registry')]_vars

\* C25 witness: the widget was disabled while it held the Uploaded record
\* 5, published before; the one write is the empty list with fromUi:false
\* and the collection is empty.
C25_Witness ==
  /\ act.name = "setDisabled"
  /\ disabled
  /\ files = <<>>
  /\ Len(effects.writes) = 1
  /\ ~effects.writes[1].fromUi
  /\ effects.writes[1].prev = <<5>>
  /\ effects.writes[1].uploaded = <<5>>
  /\ registry.data = <<>>

distinctIds(fs) == \A i, j \in DOMAIN fs : i # j => fs[i].id # fs[j].id

\* The positions at which two collections of the same length differ.
changedAt(fs, fs2) == {i \in DOMAIN fs : fs2[i] # fs[i]}

\* C26: the ids of the records stay pairwise distinct through every handler
\* in which the transport does not answer with an id that a record of the
\* collection already carries; Uploading and Error records carry negative
\* ids and Uploaded records positive ones.  While the ids are distinct,
\* deleteFile removes at most one record and a transport callback changes
\* at most one.
C26_IdsPairwiseDistinct ==
  [][/\ (/\ distinctIds(files)
         /\ act'.name = "uploadSuccess" => act'.newId \notin Ids(files))
          => distinctIds(files')
     /\ \A i \in DOMAIN files' :
          IF files'[i].status.type = "uploaded"
            THEN files'[i].id > 0
            ELSE files'[i].id < 0
     /\ (distinctIds(files) /\ act'.name = "deleteFile")
          => Len(files') >= Len(files) - 1
     /\ (distinctIds(files) /\ act'.name \in Callbacks)
          => /\ Len(files') = Len(files)
             /\ Cardinality(changedAt(files, files')) <= 1]_vars

\* C26 witness: a third upload has just succeeded; the collection holds the
\* Uploaded records 5 and 9 and, between them, an Error record under its
\* local id.
C26_Witness ==
  /\ act.name = "uploadSuccess"
  /\ Len(files) = 3
  /\ files[1].id = 5
  /\ files[2].id < 0
  /\ files[2].status.type = "error"
  /\ files[3].id = 9
  /\ distinctIds(files)

\* A Radio not yet mounted holds the stored value of its widget id when
\* there is one and the element's default otherwise, and has written
\* nothing; a mounted Radio's state value is the value the registry stores.
radioHoldsRegistryValue(r) ==
  /\ ~r.mounted
       => /\ r.writes = <<>>
          /\ r.value = IF r.stored = <<>> THEN r.default ELSE r.stored[1]
  /\ r.mounted => r.stored = <<r.value>>

\* C27: a Radio starts from the stored value of its widget id, or from the
\* element's default when nothing is stored; mounting writes that value
\* once with fromUi:false; a user change makes the chosen option the state
\* value and writes it once with fromUi:true; so state and registry agree.
C27_RadioValueAndWrites ==
  [][/\ radioHoldsRegistryValue(radio)
     /\ radioHoldsRegistryValue(radio')
     /\ (~radio.mounted /\ radio'.mounted)
          => /\ radio'.value = radio.value
             /\ radio'.writes = <<[value |-> radio.value, fromUi |-> FALSE]>>
     /\ (radio.mounted /\ radio'.writes # <<>>)
          => /\ radio'.writes = <<[value |-> radio'.value, fromUi |-> TRUE]>>
             /\ radio'.value \in 0..(radio.options - 1)]_vars

\* C27 witness: a Radio mounted over a stored 0 that differs from its
\* default has written the 0, not as user input.
C27_Witness ==
  /\ radio # Absent
  /\ radio.mounted
  /\ radio.default # 0
  /\ radio.writes = <<[value |-> 0, fromUi |-> FALSE]>>

\* C28: an update of a DateInput whose element has another default sets
\* the state value to the new default, whatever date the user had chosen,
\* and writes it to the registry once; an update with the same default
\* changes neither the state value nor the registry and writes nothing;
\* no update goes on without end.
C28_ResetOnNewDefault ==
  [][dateInput'.handler = "update"
       => /\ ~dateInput'.looping
          /\ dateInput'.default # dateInput.default
               => /\ dateInput'.value = dateInput'.default
                  /\ dateInput'.writes = <<dateInput'.default>>
                  /\ dateInput'.stored = <<dateInput'.default>>
          /\ dateInput'.default = dateInput.default
               => /\ dateInput'.value = dateInput.value
                  /\ dateInput'.writes = <<>>
                  /\ dateInput'.stored = dateInput.stored]_vars

\* C28 witness: the user had chosen a date other than the default, and an
\* update with a new default has replaced it in state and registry.
C28_Witness ==
  /\ dateInput # Absent
  /\ dateInput.handler = "update"
  /\ dateInput.found.value # dateInput.found.default
  /\ dateInput.found.default # dateInput.default
  /\ dateInput.found.value # dateInput.default
  /\ dateInput.value = dateInput.default
  /\ dateInput.writes = <<dateInput.default>>

\* The GUEST_READY messages among the messages posted to the host.
guestReadySent(g) == SelectSeq(g.sent, LAMBDA m : m.type = "GUEST_READY")

\* C29: the menu items of the guest change only in a step that handles a
\* message of the own origin with stCommVersion 1 and type SET_MENU_ITEMS,
\* and then they are the items of that message; every other message
\* leaves them as they were; GUEST_READY is posted by the mount, with
\* stCommVersion 1, and never again.
C29_ItemsOnlyFromOwnHost ==
  [][/\ guest'.items # guest.items
          => /\ guest'.event.origin = "own"
             /\ guest'.event.data.stCommVersion = [type |-> "number", value |-> 1]
             /\ guest'.event.data.type = "SET_MENU_ITEMS"
     /\ (/\ guest'.event # NoEvent
         /\ guest'.event.origin = "own"
         /\ guest'.event.data.stCommVersion = [type |-> "number", value |-> 1]
         /\ guest'.event.data.type = "SET_MENU_ITEMS")
          => guest'.items = guest'.event.data.items
     /\ Len(guestReadySent(guest')) = IF guest'.mounted THEN 1 ELSE 0
     /\ (~guest.mounted /\ guest'.mounted)
          => guest'.sent = <<[stCommVersion |-> [type |-> "number", value |-> 1],
                              type |-> "GUEST_READY", key |-> ""]>>]_vars

\* C29 witness: a mounted guest whose items a SET_MENU_ITEMS message of the
\* own origin has replaced by others, after it had posted two messages.
C29_Witness ==
  /\ guest # Absent
  /\ guest.event # NoEvent
  /\ guest.found # <<>>
  /\ guest.items # guest.found
  /\ Len(guest.sent) = 2

\* C30 as stated: when the script has run to the end of its loop and the
\* test run of some file had exited with a non-zero code, the exit status
\* of the script is not 0, with -a true and with -a false.
C30_EveryFailureRecorded ==
  (/\ script.pc = "exited"
   /\ script.file > script.files
   /\ script.failed)
    => script.status # <<0>>

\* C30, the -a value: with a value other than true or false the script
\* exits with status 1 before it runs a test.
C30_BadOptionExits ==
  (script.pc # "args" /\ script.always_continue \notin {"false", "true"})
    => /\ script.status = <<1>>
       /\ script.file = 1
       /\ ~script.failed

====
